---- MODULE Spec2Model ----
(***************************************************************************)
(* Model of src/controllers/contactController.ts: the three express        *)
(* handlers sendContactMessage, getAllContacts and deleteContact, the      *)
(* validateContactData helper, and the two collaborators they await        *)
(* (the form2chat notifier reached through axios.post, and the             *)
(* contact_messages table reached through the supabase client).            *)
(*                                                                         *)
(* Text is a sequence of one-character strings.  A payload field is a      *)
(* record [t, s]: t = "text" with the characters s, t = "missing" for an   *)
(* absent (undefined/null) field, t = "nontext" for a present value that   *)
(* is not a string (a number, an array, ...), on which .trim is no         *)
(* function.                                                               *)
(***************************************************************************)
EXTENDS Integers, Sequences, FiniteSets, TLC

\* Number of concurrent invocations (request slots).
MaxReqs == 2
\* Largest run of whitespace put before or after a field's characters.
MaxPad == 1

Reqs == 1..MaxReqs

VARIABLES req, store, nextId, hist

vars == <<req, store, nextId, hist>>

----------------------------------------------------------------------------
\* Text, String.prototype.trim and the email pattern

Pad(n) == [i \in 1..n |-> " "]

IsSpace(c) == c = " "

RECURSIVE trimStart(_)
trimStart(s) == IF s # <<>> /\ IsSpace(Head(s)) THEN trimStart(Tail(s)) ELSE s

RECURSIVE trimEnd(_)
trimEnd(s) == IF s # <<>> /\ IsSpace(s[Len(s)]) THEN trimEnd(SubSeq(s, 1, Len(s) - 1)) ELSE s

trim(s) == trimEnd(trimStart(s))

\* [^\s@] : any character that is neither whitespace nor "@" ("." is one).
NotSpaceNorAt(c) == ~IsSpace(c) /\ c # "@"

\* /^[^\s@]+@[^\s@]+\.[^\s@]+$/ : s[i] is the "@" and s[j] the "." the pattern
\* names; every other character is in [^\s@], with at least one before the
\* "@", one between "@" and ".", and one after the ".".
emailRegex(s) ==
    \E i \in 2..Len(s) : \E j \in (i + 2)..(Len(s) - 1) :
        /\ s[i] = "@"
        /\ s[j] = "."
        /\ \A k \in (1..Len(s)) \ {i} : NotSpaceNorAt(s[k])

----------------------------------------------------------------------------
\* Payload fields and request bodies

Text(s) == [t |-> "text", s |-> s]
Missing == [t |-> "missing", s |-> <<>>]
NonText == [t |-> "nontext", s |-> <<>>]

Padded(cores) == {Pad(l) \o c \o Pad(r) : c \in cores, l \in 0..MaxPad, r \in 0..MaxPad}

FieldCores == {<<>>, <<"a">>}

EmailCores ==
    { <<>>,
      <<"a">>,
      <<"a", "@", "a">>,
      <<"@", "a", ".", "a">>,
      <<"a", "@", ".", "a">>,
      <<"a", "@", "a", ".">>,
      <<"a", "@", "a", ".", "a">>,
      <<"a", " ", "@", "a", ".", "a">>,
      <<"a", "@", "@", "a", ".", "a">>,
      <<"a", "@", "a", " ", ".", "a">>,
      <<"a", "@", "a", ".", "a", ".", "a">>,
      <<".", "@", ".", ".", ".">> }

FieldVals == {Missing, NonText} \cup {Text(s) : s \in Padded(FieldCores)}

EmailVals == {Missing, NonText} \cup {Text(s) : s \in Padded(EmailCores)}

Bodies == [name : FieldVals, email : EmailVals, phone : FieldVals, message : FieldVals]

\* The bodies used when several invocations run concurrently: two valid
\* submissions that differ in every field, with whitespace around fields.
BodyA ==
    [name |-> Text(<<" ", "a">>), email |-> Text(<<"a", "@", "a", ".", "a">>),
     phone |-> Text(<<"a", " ">>), message |-> Text(<<" ", "a", " ">>)]

BodyB ==
    [name |-> Text(<<"b">>), email |-> Text(<<"b", "@", "b", ".", "b">>),
     phone |-> Text(<<"b">>), message |-> Text(<<"b", " ">>)]

\* A body whose email is valid only once trimmed, and one with a number for phone.
BodyPadded == [BodyB EXCEPT !.email = Text(<<" ", "b", "@", "b", ".", "b">>)]

BodyNumber == [BodyB EXCEPT !.phone = NonText]

FewBodies == {BodyA, BodyB, BodyPadded, BodyNumber}

----------------------------------------------------------------------------
\* validateContactData

\* !v?.trim() : "fail" when the check rejects, "pass" when it lets the value
\* through, "throw" when v is present and has no trim function (TypeError).
Required(v) ==
    CASE v.t = "missing" -> "fail"
      [] v.t = "nontext" -> "throw"
      [] OTHER -> IF trim(v.s) = <<>> THEN "fail" ELSE "pass"

Invalid(msg) == [threw |-> FALSE, isValid |-> FALSE, error |-> msg]
Valid == [threw |-> FALSE, isValid |-> TRUE, error |-> ""]
Threw == [threw |-> TRUE, isValid |-> FALSE, error |-> ""]

\* emailRegex.test(email || '') : the pattern is tested on the email as given.
EmailTest(email) == emailRegex(email.s)

\* validateContactData with the email format tested right after the email's
\* presence, before phone and message.
validateFormatFirst(data) ==
    LET n == Required(data.name)
        e == Required(data.email)
        p == Required(data.phone)
        m == Required(data.message)
    IN  IF n = "throw" THEN Threw
        ELSE IF n = "fail" THEN Invalid("Name is required")
        ELSE IF e = "throw" THEN Threw
        ELSE IF e = "fail" THEN Invalid("Email is required")
        ELSE IF ~EmailTest(data.email) THEN Invalid("Please enter a valid email address")
        ELSE IF p = "throw" THEN Threw
        ELSE IF p = "fail" THEN Invalid("Phone number is required")
        ELSE IF m = "throw" THEN Threw
        ELSE IF m = "fail" THEN Invalid("Message is required")
        ELSE Valid

validateContactData(data) ==
    LET n == Required(data.name)
        e == Required(data.email)
        p == Required(data.phone)
        m == Required(data.message)
    IN  IF n = "throw" THEN Threw
        ELSE IF n = "fail" THEN Invalid("Name is required")
        ELSE IF e = "throw" THEN Threw
        ELSE IF e = "fail" THEN Invalid("Email is required")
        ELSE IF p = "throw" THEN Threw
        ELSE IF p = "fail" THEN Invalid("Phone number is required")
        ELSE IF m = "throw" THEN Threw
        ELSE IF m = "fail" THEN Invalid("Message is required")
        ELSE IF ~EmailTest(data.email) THEN Invalid("Please enter a valid email address")
        ELSE Valid

\* Payload with the name left as given.
PayloadNameUntrimmed(body) ==
    [name |-> body.name.s, email |-> trim(body.email.s),
     phone |-> trim(body.phone.s), message |-> trim(body.message.s)]

\* The payload handed to the notifier and to the insert: every field trimmed.
Payload(body) ==
    [name |-> trim(body.name.s), email |-> trim(body.email.s),
     phone |-> trim(body.phone.s), message |-> trim(body.message.s)]

----------------------------------------------------------------------------
\* Invocations: one record per request slot

NoBody == [name |-> Missing, email |-> Missing, phone |-> Missing, message |-> Missing]
NoPayload == [name |-> <<>>, email |-> <<>>, phone |-> <<>>, message |-> <<>>]

\* status 0: the handler has sent no response.
NoRes == [status |-> 0, kind |-> "none", text |-> "", data |-> <<>>]

\* events, sent, inserted, existed and expect record what the invocation did
\* (the calls it issued, in order, and what the store held when it answered).
IdleReq ==
    [kind |-> "none", pc |-> "idle", body |-> NoBody, id |-> 0, payload |-> NoPayload,
     res |-> NoRes, events |-> <<>>, sent |-> <<>>, inserted |-> <<>>,
     notifier |-> "none", storeRes |-> "none", existed |-> FALSE, expect |-> {}]

\* The message of an error value the store returns.
StoreMsg == "connection refused"

\* res.status(s).json({error: text}) / .json({message: text}) / .json(data) / .send()
Respond(q, status, kind, text, data) ==
    [q EXCEPT !.res = [status |-> status, kind |-> kind, text |-> text, data |-> data],
              !.events = Append(@, "respond"),
              !.pc = "done"]

\* The outer catch answering 500 itself instead of calling next(err).
ForwardAnswers(q) ==
    [q EXCEPT !.res = [status |-> 500, kind |-> "error", text |-> "Internal Server Error",
                       data |-> <<>>],
              !.events = Append(@, "respond"),
              !.pc = "done"]

\* catch (err) { next(err) }
Forward(q) == [q EXCEPT !.events = Append(@, "next"), !.pc = "done"]

\* axios.post(FORM2CHAT_API_URL, payload, ...) is issued and awaited.
PostToNotifier(q) ==
    [q EXCEPT !.events = Append(@, "notify"), !.sent = Append(@, q.payload),
              !.pc = "awaitNotifier"]

\* supabase.from('contact_messages').insert([payload]) is issued and awaited.
IssueInsert(q) ==
    [q EXCEPT !.events = Append(@, "insert"), !.inserted = Append(@, q.payload),
              !.pc = "awaitInsert"]

\* StartSubmit without the return in front of the 400 response.
StartSubmitNoReturn(q, body) ==
    LET v == validateContactData(body)
        q1 == [q EXCEPT !.kind = "submit", !.body = body]
    IN  IF v.threw THEN Forward(q1)
        ELSE IF ~v.isValid
             THEN PostToNotifier([Respond(q1, 400, "error", v.error, <<>>)
                                     EXCEPT !.payload = Payload(body)])
        ELSE PostToNotifier([q1 EXCEPT !.payload = Payload(body)])

\* sendContactMessage up to its first await.
StartSubmit(q, body) ==
    LET v == validateContactData(body)
        q1 == [q EXCEPT !.kind = "submit", !.body = body]
    IN  IF v.threw THEN Forward(q1)
        ELSE IF ~v.isValid THEN Respond(q1, 400, "error", v.error, <<>>)
        ELSE PostToNotifier([q1 EXCEPT !.payload = Payload(body)])

\* AfterNotifier without the inner try/catch: a rejection reaches the outer catch.
AfterNotifierNoCatch(q, outcome) ==
    IF outcome = "ok"
    THEN IssueInsert([q EXCEPT !.notifier = outcome, !.events = Append(@, "notifyOk")])
    ELSE Forward([q EXCEPT !.notifier = outcome, !.events = Append(@, "notifyFail")])

\* The notifier call settles: on rejection the inner catch logs and the
\* handler goes on to the insert all the same.
AfterNotifier(q, outcome) ==
    IssueInsert([q EXCEPT !.notifier = outcome,
                          !.events = Append(@, IF outcome = "ok" THEN "notifyOk" ELSE "notifyFail")])

\* AfterInsert answering 500 with error.message, as the other two handlers do.
AfterInsertLeak(q, result, msg) ==
    LET q1 == [q EXCEPT !.storeRes = result,
                        !.events = Append(@, CASE result = "ok" -> "insertOk"
                                               [] result = "error" -> "insertErr"
                                               [] OTHER -> "insertThrow")]
    IN  CASE result = "throw" -> Forward(q1)
          [] result = "error" -> Respond(q1, 500, "error", msg, <<>>)
          [] OTHER -> Respond(q1, 201, "message", "Message sent successfully.", <<>>)

\* AfterInsert issuing the insert again when it returned an error.
AfterInsertRetry(q, result, msg) ==
    LET q1 == [q EXCEPT !.storeRes = result,
                        !.events = Append(@, CASE result = "ok" -> "insertOk"
                                               [] result = "error" -> "insertErr"
                                               [] OTHER -> "insertThrow")]
    IN  CASE result = "throw" -> Forward(q1)
          [] result = "error" -> IssueInsert(q1)
          [] OTHER -> Respond(q1, 201, "message", "Message sent successfully.", <<>>)

\* The insert settles with {error} (result "ok" or "error") or rejects ("throw").
AfterInsert(q, result, msg) ==
    LET q1 == [q EXCEPT !.storeRes = result,
                        !.events = Append(@, CASE result = "ok" -> "insertOk"
                                               [] result = "error" -> "insertErr"
                                               [] OTHER -> "insertThrow")]
    IN  CASE result = "throw" -> Forward(q1)
          [] result = "error" ->
                Respond(q1, 500, "error", "Failed to save message. Please try again.", <<>>)
          [] OTHER -> Respond(q1, 201, "message", "Message sent successfully.", <<>>)

\* getAllContacts after its await.
AfterSelect(q, result, msg, rows) ==
    LET q1 == [q EXCEPT !.storeRes = result]
    IN  CASE result = "throw" -> Forward(q1)
          [] result = "error" -> Respond(q1, 500, "error", msg, <<>>)
          [] OTHER -> Respond(q1, 200, "data", "", rows)

\* deleteContact after its await.
AfterDelete(q, result, msg) ==
    LET q1 == [q EXCEPT !.storeRes = result]
    IN  CASE result = "throw" -> Forward(q1)
          [] result = "error" -> Respond(q1, 500, "error", msg, <<>>)
          [] OTHER -> Respond(q1, 204, "empty", "", <<>>)

----------------------------------------------------------------------------
\* The contact_messages table, as the three queries use it

Row(id, p) ==
    [id |-> id, created_at |-> id, name |-> p.name, email |-> p.email,
     phone |-> p.phone, message |-> p.message]

\* .insert([payload]) : the table assigns the id and created_at.
InsertRow(s, id, p) == s \cup {Row(id, p)}

\* .delete() without the .eq('id', id) filter.
DeleteRowAll(s, id) == {}

\* .delete().eq('id', id)
DeleteRow(s, id) == {x \in s : x.id # id}

\* .select('*').order('created_at', {ascending: false})
RECURSIVE SelectAll(_)
SelectAll(s) ==
    IF s = {} THEN <<>>
    ELSE LET top == CHOOSE x \in s : \A y \in s : y.created_at <= x.created_at
         IN  <<top>> \o SelectAll(s \ {top})

Ids(s) == {x.id : x \in s}

SeedPayload == [name |-> <<"s">>, email |-> <<"s", "@", "s", ".", "s">>,
                phone |-> <<"s">>, message |-> <<"s">>]

IdParams == {1, 2, 3}

----------------------------------------------------------------------------
\* Initial state: no invocation running, one row already in the table.

Init ==
    /\ req = [r \in Reqs |-> IdleReq]
    /\ store = {Row(1, SeedPayload)}
    /\ nextId = 2
    /\ hist = [rows |-> {[id |-> 1, src |-> 0, payload |-> SeedPayload]}, deleted |-> {}]

\* Slots name the invocations in their order of arrival.
CanArrive(r) == req[r].pc = "idle" /\ (IF r = 1 THEN TRUE ELSE req[r - 1].pc # "idle")

\* A submit request arrives with one of the given bodies.
Submit(r, bodies) ==
    /\ CanArrive(r)
    /\ \E body \in bodies : req' = [req EXCEPT ![r] = StartSubmit(@, body)]
    /\ UNCHANGED <<store, nextId, hist>>

NotifierOk(r) ==
    /\ req[r].pc = "awaitNotifier"
    /\ req' = [req EXCEPT ![r] = AfterNotifier(@, "ok")]
    /\ UNCHANGED <<store, nextId, hist>>

NotifierFail(r) ==
    /\ req[r].pc = "awaitNotifier"
    /\ req' = [req EXCEPT ![r] = AfterNotifier(@, "fail")]
    /\ UNCHANGED <<store, nextId, hist>>

InsertOk(r) ==
    /\ req[r].pc = "awaitInsert"
    /\ store' = InsertRow(store, nextId, req[r].inserted[Len(req[r].inserted)])
    /\ nextId' = nextId + 1
    /\ hist' = [hist EXCEPT !.rows = @ \cup
                    {[id |-> nextId, src |-> r,
                      payload |-> req[r].inserted[Len(req[r].inserted)]]}]
    /\ req' = [req EXCEPT ![r] = AfterInsert(@, "ok", "")]

InsertError(r) ==
    /\ req[r].pc = "awaitInsert"
    /\ req' = [req EXCEPT ![r] = AfterInsert(@, "error", StoreMsg)]
    /\ UNCHANGED <<store, nextId, hist>>

InsertThrow(r) ==
    /\ req[r].pc = "awaitInsert"
    /\ req' = [req EXCEPT ![r] = AfterInsert(@, "throw", StoreMsg)]
    /\ UNCHANGED <<store, nextId, hist>>

List(r) ==
    /\ CanArrive(r)
    /\ req' = [req EXCEPT ![r] = [@ EXCEPT !.kind = "list", !.pc = "awaitSelect"]]
    /\ UNCHANGED <<store, nextId, hist>>

SelectOk(r) ==
    /\ req[r].pc = "awaitSelect"
    /\ req' = [req EXCEPT ![r] =
                  AfterSelect([@ EXCEPT !.expect = Ids(hist.rows) \ hist.deleted],
                              "ok", "", SelectAll(store))]
    /\ UNCHANGED <<store, nextId, hist>>

SelectError(r) ==
    /\ req[r].pc = "awaitSelect"
    /\ req' = [req EXCEPT ![r] = AfterSelect(@, "error", StoreMsg, <<>>)]
    /\ UNCHANGED <<store, nextId, hist>>

SelectThrow(r) ==
    /\ req[r].pc = "awaitSelect"
    /\ req' = [req EXCEPT ![r] = AfterSelect(@, "throw", StoreMsg, <<>>)]
    /\ UNCHANGED <<store, nextId, hist>>

Delete(r) ==
    /\ CanArrive(r)
    /\ \E id \in IdParams :
          req' = [req EXCEPT ![r] = [@ EXCEPT !.kind = "delete", !.id = id, !.pc = "awaitDelete"]]
    /\ UNCHANGED <<store, nextId, hist>>

DeleteOk(r) ==
    /\ req[r].pc = "awaitDelete"
    /\ store' = DeleteRow(store, req[r].id)
    /\ hist' = [hist EXCEPT !.deleted = @ \cup ({req[r].id} \cap Ids(hist.rows))]
    /\ req' = [req EXCEPT ![r] =
                  AfterDelete([@ EXCEPT !.existed = req[r].id \in Ids(store)], "ok", "")]
    /\ UNCHANGED nextId

DeleteError(r) ==
    /\ req[r].pc = "awaitDelete"
    /\ req' = [req EXCEPT ![r] = AfterDelete(@, "error", StoreMsg)]
    /\ UNCHANGED <<store, nextId, hist>>

DeleteThrow(r) ==
    /\ req[r].pc = "awaitDelete"
    /\ req' = [req EXCEPT ![r] = AfterDelete(@, "throw", StoreMsg)]
    /\ UNCHANGED <<store, nextId, hist>>

\* The store answers every query it is sent; nothing makes the notifier answer.
StoreAnswers ==
    \A r \in Reqs :
        /\ WF_vars(InsertOk(r) \/ InsertError(r) \/ InsertThrow(r))
        /\ WF_vars(SelectOk(r) \/ SelectError(r) \/ SelectThrow(r))
        /\ WF_vars(DeleteOk(r) \/ DeleteError(r) \/ DeleteThrow(r))

\* Several invocations, interleaved at their awaits.
Next ==
    \/ \E r \in Reqs : Submit(r, FewBodies)
    \/ \E r \in Reqs : NotifierOk(r)
    \/ \E r \in Reqs : NotifierFail(r)
    \/ \E r \in Reqs : InsertOk(r)
    \/ \E r \in Reqs : InsertError(r)
    \/ \E r \in Reqs : InsertThrow(r)
    \/ \E r \in Reqs : List(r)
    \/ \E r \in Reqs : SelectOk(r)
    \/ \E r \in Reqs : SelectError(r)
    \/ \E r \in Reqs : SelectThrow(r)
    \/ \E r \in Reqs : Delete(r)
    \/ \E r \in Reqs : DeleteOk(r)
    \/ \E r \in Reqs : DeleteError(r)
    \/ \E r \in Reqs : DeleteThrow(r)

Spec == Init /\ [][Next]_vars

SpecLive == Init /\ [][Next]_vars /\ StoreAnswers

\* One submit invocation, over every body.
NextOne ==
    \/ Submit(1, Bodies)
    \/ NotifierOk(1)
    \/ NotifierFail(1)
    \/ InsertOk(1)
    \/ InsertError(1)
    \/ InsertThrow(1)

SpecOne == Init /\ [][NextOne]_vars

----------------------------------------------------------------------------
\* What the properties below speak of, stated without the handler's helpers

Count(seq, e) == Cardinality({i \in DOMAIN seq : seq[i] = e})

OnlySpaces(s) == \A i \in DOMAIN s : s[i] = " "

\* A field that is absent, empty or whitespace-only.
Blank(v) == v.t = "missing" \/ (v.t = "text" /\ OnlySpaces(v.s))

\* A field that is text with something other than whitespace in it.
Filled(v) == v.t = "text" /\ ~OnlySpaces(v.s)

\* s without its leading and trailing whitespace.
Stripped(s) ==
    IF OnlySpaces(s) THEN <<>>
    ELSE LET first == CHOOSE i \in DOMAIN s : s[i] # " " /\ \A k \in 1..(i - 1) : s[k] = " "
             last == CHOOSE i \in DOMAIN s : s[i] # " " /\ \A k \in (i + 1)..Len(s) : s[k] = " "
         IN  SubSeq(s, first, last)

\* local@domain.tld : no whitespace, exactly one "@", not in first place, and
\* after it a "." that is neither the first nor the last character there.
Shape(s) ==
    /\ \A i \in DOMAIN s : s[i] # " "
    /\ Count(s, "@") = 1
    /\ LET at == CHOOSE i \in DOMAIN s : s[i] = "@"
       IN  at > 1 /\ \E j \in DOMAIN s : j > at + 1 /\ j < Len(s) /\ s[j] = "."

AllText(b) == b.name.t # "nontext" /\ b.email.t # "nontext" /\ b.phone.t # "nontext"
              /\ b.message.t # "nontext"

AllFilled(b) == Filled(b.name) /\ Filled(b.email) /\ Filled(b.phone) /\ Filled(b.message)

\* The messages of the checks the body fails.
Failures(b) ==
    {m \in {"Name is required", "Email is required", "Phone number is required",
            "Message is required", "Please enter a valid email address"} :
        \/ m = "Name is required" /\ Blank(b.name)
        \/ m = "Email is required" /\ Blank(b.email)
        \/ m = "Phone number is required" /\ Blank(b.phone)
        \/ m = "Message is required" /\ Blank(b.message)
        \/ m = "Please enter a valid email address" /\ b.email.t = "text" /\ ~Shape(b.email.s)}

StrippedBody(b) ==
    [name |-> Stripped(b.name.s), email |-> Stripped(b.email.s),
     phone |-> Stripped(b.phone.s), message |-> Stripped(b.message.s)]

\* Evaluating the checks in order reaches a present non-text field (on which
\* .trim is no function) before any check rejects.
HitsNonText(b) ==
    \/ b.name.t = "nontext"
    \/ Filled(b.name) /\ b.email.t = "nontext"
    \/ Filled(b.name) /\ Filled(b.email) /\ b.phone.t = "nontext"
    \/ Filled(b.name) /\ Filled(b.email) /\ Filled(b.phone) /\ b.message.t = "nontext"

Submits == {r \in Reqs : req[r].kind = "submit"}

----------------------------------------------------------------------------
\* C1: a submit whose payload fails validation (a field absent, empty or
\* whitespace-only, or an email not of the local@domain.tld shape) is answered
\* 400 with the fixed message of a check it fails, and does nothing else: no
\* notifier call and no insert is issued for it.
C1_InvalidRejectedNoSideEffect ==
    \A r \in Submits :
        LET q == req[r]
        IN  (AllText(q.body) /\ Failures(q.body) # {}) =>
                /\ q.pc = "done"
                /\ q.res.status = 400
                /\ q.res.kind = "error"
                /\ q.res.text \in Failures(q.body)
                /\ q.events = <<"respond">>
                /\ q.sent = <<>>
                /\ q.inserted = <<>>

C1_Witness ==
    \E r \in Submits :
        /\ Blank(req[r].body.message) /\ Filled(req[r].body.name)
        /\ Filled(req[r].body.email) /\ Filled(req[r].body.phone)
        /\ Shape(req[r].body.email.s)
        /\ req[r].res.status = 400

\* C2 (as claimed): every submission whose four fields are non-empty after
\* trimming and whose trimmed email has the local@domain.tld shape is
\* accepted, and the notifier is handed exactly the trimmed fields.
C2_TrimmedValidAccepted ==
    \A r \in Submits :
        LET q == req[r]
        IN  (AllFilled(q.body) /\ Shape(Stripped(q.body.email.s))) =>
                /\ q.res.status # 400
                /\ q.sent = <<StrippedBody(q.body)>>

\* C3: when the notifier call fails for a valid submission, the insert is
\* still issued (once, with the same payload), the failure is not forwarded
\* to the error layer, and a successful insert is answered 201 with the
\* success message.
C3_NotifierFailureSwallowed ==
    \A r \in Submits :
        LET q == req[r]
        IN  q.notifier = "fail" =>
                /\ q.pc \in {"awaitInsert", "done"}
                /\ q.inserted = <<q.payload>>
                /\ (q.storeRes # "throw" => Count(q.events, "next") = 0)
                /\ (q.storeRes = "ok" =>
                        q.res = [status |-> 201, kind |-> "message",
                                 text |-> "Message sent successfully.", data |-> <<>>])

C3_Witness ==
    \E r \in Submits :
        req[r].notifier = "fail" /\ req[r].storeRes = "ok" /\ req[r].res.status = 201

\* C4: when the insert returns an error for a valid submission, the response
\* is 500 with the generic body, whatever the notifier did; the store's own
\* message is not in it and no 201 is sent.
C4_InsertErrorGeneric500 ==
    \A r \in Submits :
        LET q == req[r]
        IN  q.storeRes = "error" =>
                /\ q.res = [status |-> 500, kind |-> "error",
                            text |-> "Failed to save message. Please try again.",
                            data |-> <<>>]
                /\ q.res.text # StoreMsg
                /\ Count(q.events, "respond") = 1

C4_Witness ==
    \E r1 \in Submits : \E r2 \in Submits :
        /\ req[r1].notifier = "ok" /\ req[r1].storeRes = "error" /\ req[r1].res.status = 500
        /\ req[r2].notifier = "fail" /\ req[r2].storeRes = "error" /\ req[r2].res.status = 500

\* C5 (as claimed): once a valid submission has been handed to the notifier,
\* the handler eventually issues the insert and finishes the request,
\* whatever the notifier does, provided the store answers.
C5_NotifierNeverBlocks ==
    \A r \in Reqs :
        (req[r].pc = "awaitNotifier") ~> (req[r].pc = "done" /\ Len(req[r].inserted) = 1)

\* C6: in submit, listAll and deleteById an exception other than the caught
\* notifier failure (the store call rejecting, a payload field that is present
\* but not text) is forwarded to the error layer exactly once and the handler
\* sends no response; nothing else is ever forwarded.
C6_UncaughtForwardedOnce ==
    \A r \in Reqs :
        LET q == req[r]
            raised == \/ q.storeRes = "throw"
                      \/ q.kind = "submit" /\ HitsNonText(q.body)
        IN  /\ raised => /\ q.pc = "done"
                         /\ Count(q.events, "next") = 1
                         /\ Count(q.events, "respond") = 0
                         /\ q.res = NoRes
            /\ ~raised => Count(q.events, "next") = 0

C6_Witness ==
    \E r1 \in Reqs : \E r2 \in Reqs :
        /\ req[r1].kind = "submit" /\ HitsNonText(req[r1].body)
        /\ Count(req[r1].events, "next") = 1
        /\ req[r2].kind \in {"list", "delete"} /\ req[r2].storeRes = "throw"
        /\ Count(req[r2].events, "next") = 1

\* C7: a delete the store reports no error for is answered 204 with an empty
\* body whether or not the id existed; the table then holds exactly the rows
\* ever inserted that no delete has named since (so a repeated delete changes
\* nothing more), and a listing returns exactly those rows, each once.
C7_DeleteIdempotent ==
    /\ \A r \in Reqs :
          (req[r].kind = "delete" /\ req[r].storeRes = "ok") =>
              req[r].res = [status |-> 204, kind |-> "empty", text |-> "", data |-> <<>>]
    /\ Ids(store) = Ids(hist.rows) \ hist.deleted
    /\ \A r \in Reqs :
          (req[r].kind = "list" /\ req[r].storeRes = "ok") =>
              /\ {req[r].res.data[i].id : i \in DOMAIN req[r].res.data} = req[r].expect
              /\ Len(req[r].res.data) = Cardinality(req[r].expect)

C7_Witness ==
    \E r1 \in Reqs : \E r2 \in Reqs :
        /\ req[r1].kind = "delete" /\ req[r2].kind = "delete"
        /\ req[r1].id = req[r2].id
        /\ req[r1].existed /\ ~req[r2].existed
        /\ req[r1].res.status = 204 /\ req[r2].res.status = 204
        /\ store = {}

\* C8: the 400 message is that of the earliest failing check in the order
\* name, email, phone, message, email format; the email-format message is
\* returned only when all four fields are non-empty after trimming.
C8_FirstFailureWins ==
    \A r \in Submits :
        LET q == req[r]
            b == q.body
        IN  q.res.status = 400 =>
                /\ (q.res.text = "Name is required") <=> Blank(b.name)
                /\ (q.res.text = "Email is required") <=> (Filled(b.name) /\ Blank(b.email))
                /\ (q.res.text = "Phone number is required") <=>
                        (Filled(b.name) /\ Filled(b.email) /\ Blank(b.phone))
                /\ (q.res.text = "Message is required") <=>
                        (Filled(b.name) /\ Filled(b.email) /\ Filled(b.phone) /\ Blank(b.message))
                /\ (q.res.text = "Please enter a valid email address") <=>
                        (AllFilled(b) /\ ~Shape(b.email.s))

C8_Witness ==
    \E r \in Submits :
        /\ Filled(req[r].body.name) /\ Filled(req[r].body.email)
        /\ ~Shape(req[r].body.email.s)
        /\ Blank(req[r].body.phone) /\ Blank(req[r].body.message)
        /\ req[r].res.text = "Phone number is required"

\* The events of a valid submission that has run to its end with the given
\* notifier and store outcomes, the last one being `final`.
Run(q, final) ==
    <<"notify", IF q.notifier = "ok" THEN "notifyOk" ELSE "notifyFail", "insert",
      CASE q.storeRes = "ok" -> "insertOk" [] q.storeRes = "error" -> "insertErr"
        [] OTHER -> "insertThrow",
      final>>

\* C9 (as claimed): a valid submission that has run to its end made exactly
\* one notifier call, then one insert, then sent one response.
C9_OneCallOneInsertOneResponse ==
    \A r \in Submits :
        (req[r].pc = "done" /\ req[r].sent # <<>>) => req[r].events = Run(req[r], "respond")

\* C9 (amended): at every moment the events of a valid submission are a
\* prefix of: one notifier call, its completion, one insert, its completion,
\* and then one response, or, when the insert call itself threw, one forward
\* to the error layer and no response.  No call is ever repeated.
C9_NoRetries ==
    \A r \in Submits :
        LET q == req[r]
            full == Run(q, IF q.storeRes = "throw" THEN "next" ELSE "respond")
        IN  q.sent # <<>> =>
                /\ Len(q.events) <= 5
                /\ q.events = SubSeq(full, 1, Len(q.events))
                /\ (q.pc = "done" <=> Len(q.events) = 5)
                /\ Len(q.sent) = 1
                /\ Len(q.inserted) <= 1

C9_Witness ==
    \E r1 \in Submits : \E r2 \in Submits :
        /\ req[r1].pc = "done" /\ req[r1].storeRes = "error"
        /\ req[r1].events = <<"notify", "notifyOk", "insert", "insertErr", "respond">>
        /\ req[r2].pc = "done" /\ req[r2].storeRes = "throw"
        /\ req[r2].events = <<"notify", "notifyFail", "insert", "insertThrow", "next">>

\* The message for the first blank field, in the order of the checks.
FirstBlank(b) ==
    IF Blank(b.name) THEN "Name is required"
    ELSE IF Blank(b.email) THEN "Email is required"
    ELSE IF Blank(b.phone) THEN "Phone number is required"
    ELSE "Message is required"

\* The response an invocation's own input and own call results determine.
OwnResponse(q) ==
    CASE q.kind = "submit" /\ HitsNonText(q.body) -> NoRes
      [] q.kind = "submit" /\ ~AllFilled(q.body) ->
            [status |-> 400, kind |-> "error",
             text |-> FirstBlank(q.body), data |-> <<>>]
      [] q.kind = "submit" /\ ~Shape(q.body.email.s) ->
            [status |-> 400, kind |-> "error",
             text |-> "Please enter a valid email address", data |-> <<>>]
      [] q.storeRes = "throw" -> NoRes
      [] q.kind = "submit" /\ q.storeRes = "ok" ->
            [status |-> 201, kind |-> "message", text |-> "Message sent successfully.",
             data |-> <<>>]
      [] q.kind = "submit" /\ q.storeRes = "error" ->
            [status |-> 500, kind |-> "error",
             text |-> "Failed to save message. Please try again.", data |-> <<>>]
      [] q.kind = "delete" /\ q.storeRes = "ok" ->
            [status |-> 204, kind |-> "empty", text |-> "", data |-> <<>>]
      [] q.kind = "list" /\ q.storeRes = "ok" -> q.res
      [] OTHER -> [status |-> 500, kind |-> "error", text |-> StoreMsg, data |-> <<>>]

\* C10: under every interleaving an invocation's response is the one its own
\* payload and its own call results determine; every submission answered 201
\* has exactly one accepted insert, carrying its own trimmed fields; no
\* accepted insert is lost, duplicated or mixed with another's fields.
C10_InvocationsIndependent ==
    /\ \A r \in Reqs : req[r].pc = "done" => req[r].res = OwnResponse(req[r])
    /\ \A r \in Submits :
          LET mine == {h \in hist.rows : h.src = r}
          IN  /\ \A h \in mine : h.payload = StrippedBody(req[r].body)
              /\ Cardinality(mine) = (IF req[r].res.status = 201 THEN 1 ELSE 0)
    /\ Cardinality(Ids(hist.rows)) = Cardinality(hist.rows)
    /\ \A x \in store : \E h \in hist.rows : x = Row(h.id, h.payload)
    /\ Ids(store) = Ids(hist.rows) \ hist.deleted

C10_Witness ==
    \E r1 \in Submits : \E r2 \in Submits :
        /\ req[r1].body = BodyA /\ req[r2].body = BodyB
        /\ req[r1].res.status = 201 /\ req[r2].res.status = 201
        /\ \E x \in store : \E y \in store :
              /\ x.id < y.id
              /\ x.name = <<"b">> /\ y.name = <<"a">>

====
